---- MODULE Spec2Model ----
(***************************************************************************)
(* Street-lights dashboard: the Data Access Layer of                       *)
(* src/dashboard/db_utils.py (cached read accessors over the spatial and   *)
(* the ML store, the two write accessors, the cached connection handles)   *)
(* and the page controllers of src/dashboard/app.py that consume it.       *)
(***************************************************************************)
EXTENDS Integers, FiniteSets, Sequences, TLC

\* ------------------------------------------------------------------ bounds
NumLights == 2
NumSessions == 2
MaxCount == 2
MaxRows == 3
MaxLayers == 2
MaxMaps == 2
TickSecs == 150

LightIds == 1..NumLights
AllSessions == 1..NumSessions
Status == {"operational", "faulty", "maintenance_required"}

\* light_id=None, and an id no row of street_lights carries
NoLight == 0
MissingLight == NumLights + 1
LightArgs == {NoLight} \cup LightIds \cup {MissingLight}
\* count arguments; -1 makes the store reject the statement (negative LIMIT)
CountArgs == (-1)..MaxCount

\* ------------------------------------------------------------ store fixture
\* Columns of the enriched view that the application never writes.
UrgencyOf(l) == IF l % 2 = 1 THEN "CRITICAL" ELSE "LOW"
PredictedInDays(l) == IF l % 2 = 1 THEN 5 ELSE 20
NeighborhoodOf(l) == IF l % 2 = 1 THEN "Indiranagar" ELSE "Koramangala"
DistanceKm(l) == 5 * l

\* ------------------------------------------------------------------ tables
\* A DataFrame: its column labels and its rows (a sequence of records that
\* carry the columns the controllers compute with).
EmptyFrame == [cols |-> {}, rows |-> <<>>]

RECURSIVE SortedSeq(_)
SortedSeq(S) ==
  IF S = {} THEN <<>>
  ELSE LET m == CHOOSE x \in S : \A y \in S : x <= y
       IN <<m>> \o SortedSeq(S \ {m})

\* ---------------------------------------------------------------- accessors
PgAccessors ==
  {"get_all_lights", "get_neighborhoods", "get_suppliers",
   "get_faulty_lights_with_supplier", "get_predicted_failures",
   "get_neighborhood_stats", "get_seasonal_patterns",
   "get_supplier_coverage", "get_neighborhood_supplier_distance"}

SfAccessors ==
  {"get_snowflake_forecast_30d", "get_snowflake_forecast_90d",
   "get_snowflake_weekly_forecast", "get_snowflake_forecast_metrics",
   "get_snowflake_seasonal_forecast", "get_snowflake_monthly_budget",
   "get_snowflake_all_issues_forecast_30d",
   "get_snowflake_all_issues_forecast_90d",
   "get_snowflake_weekly_all_issues_forecast",
   "get_snowflake_forecast_comparison", "get_snowflake_all_issues_metrics",
   "get_snowflake_issue_type_distribution",
   "get_snowflake_all_issues_monthly_budget"}

Accessors == PgAccessors \cup SfAccessors

\* ttl= of each accessor's @st.cache_data decorator, in seconds
TTL(a) ==
  CASE a = "get_faulty_lights_with_supplier" -> 30
    [] a \in {"get_neighborhood_stats", "get_seasonal_patterns"} -> 120
    [] a \in SfAccessors -> 300
    [] OTHER -> 60

\* The SELECT list of each accessor: the columns of a successful result.
Columns(a) ==
  CASE a = "get_all_lights" ->
         {"light_id", "longitude", "latitude", "status", "neighborhood_name",
          "wattage", "season", "failure_risk_score", "predicted_failure_date",
          "maintenance_urgency", "age_months", "days_since_maintenance"}
    [] a = "get_neighborhoods" ->
         {"neighborhood_id", "name", "population", "boundary_geojson"}
    [] a = "get_suppliers" ->
         {"supplier_id", "name", "longitude", "latitude", "service_radius_km",
          "avg_response_hours", "specialization", "contact_phone"}
    [] a = "get_faulty_lights_with_supplier" ->
         {"light_id", "longitude", "latitude", "status", "neighborhood",
          "nearest_supplier", "specialization", "distance_km",
          "avg_response_hours", "contact_phone"}
    [] a = "get_predicted_failures" ->
         {"light_id", "longitude", "latitude", "status", "neighborhood_name",
          "predicted_failure_date", "failure_risk_score",
          "maintenance_urgency", "age_months", "days_since_maintenance",
          "season"}
    [] a = "get_neighborhood_stats" ->
         {"neighborhood", "total_lights", "operational",
          "maintenance_required", "faulty", "faulty_percentage"}
    [] a = "get_seasonal_patterns" ->
         {"season", "request_count", "avg_resolution_hours"}
    [] a = "get_supplier_coverage" ->
         {"total_lights", "within_5km", "within_10km", "beyond_10km",
          "avg_distance_km"}
    [] a = "get_neighborhood_supplier_distance" ->
         {"neighborhood", "nearest_supplier", "specialization", "distance_km",
          "lights_in_neighborhood"}
    [] a = "get_snowflake_forecast_30d" ->
         {"FORECAST_DATE", "PREDICTED_FAILURES", "LOWER_BOUND", "UPPER_BOUND",
          "SEASON", "DAY_OF_WEEK", "PRIORITY", "STAFFING_RECOMMENDATION",
          "BULBS_TO_STOCK"}
    [] a = "get_snowflake_forecast_90d" ->
         {"FORECAST_DATE", "PREDICTED_FAILURES", "LOWER_BOUND", "UPPER_BOUND",
          "WEEK_START", "MONTH_START", "SEASON"}
    [] a = "get_snowflake_weekly_forecast" ->
         {"WEEK_START", "TOTAL_PREDICTED_FAILURES", "TOTAL_LOWER_BOUND",
          "TOTAL_UPPER_BOUND", "AVG_DAILY_FAILURES", "PEAK_DAY_FAILURES",
          "PRIMARY_SEASON"}
    [] a = "get_snowflake_forecast_metrics" ->
         {"METRIC", "VALUE", "DESCRIPTION"}
    [] a = "get_snowflake_seasonal_forecast" ->
         {"SEASON", "FORECAST_DAYS", "TOTAL_FAILURES", "AVG_DAILY_FAILURES",
          "PEAK_DAY_FAILURES", "SEASONAL_RISK"}
    [] a = "get_snowflake_monthly_budget" ->
         {"MONTH", "JOBS", "BULBS_NEEDED", "MATERIAL_COST_INR",
          "LABOR_COST_INR", "TRANSPORT_COST_INR", "OVERHEAD_COST_INR",
          "TOTAL_MONTHLY_BUDGET_INR"}
    [] a = "get_snowflake_all_issues_forecast_30d" ->
         {"FORECAST_DATE", "PREDICTED_REQUESTS", "LOWER_BOUND", "UPPER_BOUND",
          "SEASON", "DAY_OF_WEEK", "WORKLOAD_LEVEL",
          "STAFFING_RECOMMENDATION", "BULBS_TO_STOCK",
          "WIRING_KITS_TO_STOCK", "POLES_TO_STOCK", "UNCERTAINTY_RANGE"}
    [] a = "get_snowflake_all_issues_forecast_90d" ->
         {"FORECAST_DATE", "PREDICTED_REQUESTS", "LOWER_BOUND", "UPPER_BOUND",
          "WEEK_START", "MONTH_START", "SEASON"}
    [] a = "get_snowflake_weekly_all_issues_forecast" ->
         {"WEEK_START", "TOTAL_PREDICTED_REQUESTS", "TOTAL_LOWER_BOUND",
          "TOTAL_UPPER_BOUND", "AVG_DAILY_REQUESTS", "PEAK_DAY_REQUESTS",
          "PRIMARY_SEASON"}
    [] a = "get_snowflake_forecast_comparison" ->
         {"FORECAST_DATE", "BULB_FAILURES", "ALL_ISSUES", "OTHER_ISSUES",
          "BULB_PERCENTAGE", "SEASON", "OVERALL_WORKLOAD"}
    [] a = "get_snowflake_all_issues_metrics" ->
         {"METRIC", "VALUE", "DESCRIPTION"}
    [] a = "get_snowflake_issue_type_distribution" ->
         {"ISSUE_TYPE", "TOTAL_COUNT", "PERCENTAGE", "FIRST_REPORTED",
          "LAST_REPORTED", "UNIQUE_LIGHTS"}
    [] OTHER ->
         {"MONTH", "TOTAL_JOBS", "BULBS_NEEDED", "WIRING_KITS_NEEDED",
          "POLES_NEEDED", "BULB_COST_INR", "WIRING_COST_INR", "POLE_COST_INR",
          "LABOR_COST_INR", "TRANSPORT_COST_INR", "TOTAL_MONTHLY_BUDGET_INR"}


\* ------------------------------------------------------------ query results
\* get_predicted_failures is the one accessor with an argument (days_ahead).
NoArg == 0
DaysArgs == {7, 30}
Key(a, x) == [acc |-> a, arg |-> x]
Keys ==
  {Key(a, NoArg) : a \in Accessors \ {"get_predicted_failures"}}
    \cup {Key("get_predicted_failures", d) : d \in DaysArgs}

Neighborhoods == {NeighborhoodOf(l) : l \in LightIds}

LightRow(l, L) ==
  [light_id |-> l, status |-> L[l], neighborhood_name |-> NeighborhoodOf(l),
   maintenance_urgency |-> UrgencyOf(l)]

FaultyRow(l, L) ==
  [light_id |-> l, status |-> L[l], neighborhood |-> NeighborhoodOf(l),
   distance_km |-> DistanceKm(l)]

StatsRow(n, L) ==
  LET mine == {l \in LightIds : NeighborhoodOf(l) = n}
  IN [neighborhood |-> n, total_lights |-> Cardinality(mine),
      operational |-> Cardinality({l \in mine : L[l] = "operational"}),
      maintenance_required |->
        Cardinality({l \in mine : L[l] = "maintenance_required"}),
      faulty |-> Cardinality({l \in mine : L[l] = "faulty"})]

\* ORDER BY faulty DESC, total_lights DESC
RECURSIVE StatsRows(_, _)
StatsRows(N, L) ==
  IF N = {} THEN <<>>
  ELSE LET Before(a, b) ==
             LET ra == StatsRow(a, L)
                 rb == StatsRow(b, L)
             IN \/ ra.faulty > rb.faulty
                \/ ra.faulty = rb.faulty /\ ra.total_lights > rb.total_lights
                \/ ra.faulty = rb.faulty /\ ra.total_lights = rb.total_lights
           first == CHOOSE a \in N : \A b \in N : Before(a, b)
       IN <<StatsRow(first, L)>> \o StatsRows(N \ {first}, L)

\* ML store: the forecast models were trained, so the forecast tables and
\* the views over them hold rows.
VARIABLE sfTrained

\* The four aggregate SELECTs (no GROUP BY) of a metrics accessor, joined by
\* UNION ALL: one row each, whatever the forecast table holds.
MetricsRows ==
  [i \in 1..4 |->
     [METRIC |-> i, VALUE |-> IF sfTrained THEN "number" ELSE "NULL"]]

MetricsAccessors ==
  {"get_snowflake_forecast_metrics", "get_snowflake_all_issues_metrics"}

\* The accessors that read a forecast table or a view over one.
ForecastAccessors ==
  SfAccessors \ (MetricsAccessors \cup {"get_snowflake_issue_type_distribution"})

\* Rows of the tables the application never writes.
StaticRows(a) ==
  CASE a = "get_neighborhoods" ->
         <<[name |-> "Indiranagar"], [name |-> "Koramangala"]>>
    [] a = "get_suppliers" -> <<[name |-> "BrightCo"]>>
    [] a = "get_seasonal_patterns" -> <<[season |-> "monsoon"]>>
    [] a = "get_supplier_coverage" -> <<[total_lights |-> NumLights]>>
    [] a = "get_neighborhood_supplier_distance" ->
         <<[neighborhood |-> "Indiranagar", nearest_supplier |-> "BrightCo"]>>
    [] a \in MetricsAccessors -> MetricsRows
    [] a = "get_snowflake_issue_type_distribution" ->
         <<[ISSUE_TYPE |-> "bulb"]>>
    [] a \in ForecastAccessors /\ ~sfTrained -> <<>>
    [] a = "get_snowflake_forecast_30d" /\ sfTrained ->
         <<[PRIORITY |-> "HIGH"], [PRIORITY |-> "LOW"]>>
    [] a = "get_snowflake_all_issues_forecast_30d" /\ sfTrained ->
         <<[WORKLOAD_LEVEL |-> "MEDIUM"], [WORKLOAD_LEVEL |-> "LOW"]>>
    [] OTHER -> <<[n |-> 1]>>

\* What the store answers to the accessor's SELECT when L is the committed
\* status of every light.
QueryResult(k, L) ==
  LET a == k.acc
      faulty == SortedSeq({l \in LightIds : L[l] = "faulty"})
      due == SortedSeq({l \in LightIds :
                          L[l] # "faulty" /\ PredictedInDays(l) <= k.arg})
  IN [cols |-> Columns(a),
      rows |->
        CASE a = "get_all_lights" -> [l \in LightIds |-> LightRow(l, L)]
          [] a = "get_faulty_lights_with_supplier" ->
               [i \in 1..Len(faulty) |-> FaultyRow(faulty[i], L)]
          [] a = "get_predicted_failures" ->
               [i \in 1..Len(due) |-> LightRow(due[i], L)]
          [] a = "get_neighborhood_stats" -> StatsRows(Neighborhoods, L)
          [] OTHER -> StaticRows(a)]


\* -------------------------------------------------------------------- state
VARIABLES
  auto_refresh,     \* the auto-refresh checkbox of each session
  last_maintenance, \* spatial store: committed last_maintenance of every light
  map_obj,    \* the folium map a page is composing
  sessions,   \* the dashboard sessions of this process
  called,     \* the cached accessor calls (keys) those sessions make
  lights,     \* spatial store: committed status of every light
  pgUp,       \* the spatial store accepts connections and answers queries
  sfUp,       \* the ML store accepts connections and answers queries
  sfLib,      \* SNOWFLAKE_AVAILABLE: the connector imported
  sfEnabled,  \* SNOWFLAKE_ENABLED: credentials were configured at import
  sfCreds,    \* the ML store's credentials are configured right now
  engineRes,  \* st.cache_resource slot of get_sqlalchemy_engine
  connRes,    \* st.cache_resource slot of get_connection
  sfRes,      \* st.cache_resource slot of get_snowflake_connection
  connTxn,    \* transaction state of the shared psycopg2 connection
  pending,    \* its uncommitted status updates
  cache,      \* st.cache_data: key -> entry
  pc,         \* per session: where its current call stands
  loc,        \* per session: the locals of its current call
  ret,        \* what the call that returned in the last step handed back
  gen         \* the data-generation process: a run of generate_all.main

dashboard == <<auto_refresh, last_maintenance, map_obj, sessions, sfCreds,
               sfTrained, called, lights, pgUp, sfUp, sfLib, sfEnabled,
               engineRes, connRes, sfRes, connTxn, pending, cache, pc, loc,
               ret>>

vars == <<gen, auto_refresh, last_maintenance, map_obj, sessions, sfCreds, sfTrained, called, lights, pgUp, sfUp, sfLib,
          sfEnabled, engineRes, connRes, sfRes, connTxn, pending, cache, pc,
          loc, ret>>

NoEntry == [age |-> -1]
NoPending == [l \in LightIds |-> "none"]
NoLoc == [op |-> "none"]
NoRet == [op |-> "none"]
EmptyCache == [k \in Keys |-> NoEntry]

\* One accessor of each store.
ReadKeys ==
  {Key("get_all_lights", NoArg), Key("get_snowflake_forecast_30d", NoArg)}

\* The key's store answers queries through the cached handle.
Usable(k) ==
  IF k.acc \in PgAccessors THEN pgUp /\ engineRes # "none"
  ELSE sfUp /\ sfRes = "handle"

\* ---------------------------------------------------------- cached handles
\* @st.cache_resource: the first return value is kept for the process.
get_sqlalchemy_engine(slot) ==
  IF slot # "unset" THEN slot ELSE "handle"

\* get_connection without @st.cache_resource: every call connects.
get_connection_uncached(slot, up) == IF up THEN "handle" ELSE "none"

get_connection(slot, up) ==
  IF slot # "unset" THEN slot
  ELSE IF up THEN "handle" ELSE "none"

get_snowflake_connection(slot, lib, enabled, up) ==
  IF slot # "unset" THEN slot
  ELSE IF ~lib THEN "none"
  ELSE IF ~enabled THEN "none"
  ELSE IF up THEN "handle" ELSE "none"

\* ------------------------------------------------------------ read accessors
\* execute_query without its try/except: the query's exception propagates.
execute_query_unguarded(engine, up, data) ==
  IF engine = "none"
  THEN [raised |-> FALSE, failed |-> TRUE, val |-> EmptyFrame]
  ELSE IF ~up
       THEN [raised |-> TRUE, failed |-> TRUE, val |-> EmptyFrame]
       ELSE [raised |-> FALSE, failed |-> FALSE, val |-> data]

execute_query(engine, up, data) ==
  IF engine = "none"
  THEN [raised |-> FALSE, failed |-> TRUE, val |-> EmptyFrame]
  ELSE IF ~up
       THEN [raised |-> FALSE, failed |-> TRUE, val |-> EmptyFrame]
       ELSE [raised |-> FALSE, failed |-> FALSE, val |-> data]

execute_snowflake_query(conn, up, data) ==
  IF conn = "none"
  THEN [raised |-> FALSE, failed |-> TRUE, val |-> EmptyFrame]
  ELSE IF ~up
       THEN [raised |-> FALSE, failed |-> TRUE, val |-> EmptyFrame]
       ELSE [raised |-> FALSE, failed |-> FALSE, val |-> data]

\* A writer that has committed and not yet cleared the cache.
Clearing == \E t \in sessions : pc[t] = "w_clear"

HitRet(s, k) ==
  [op |-> "read", s |-> s, key |-> k, val |-> cache[k].val, hit |-> TRUE,
   raised |-> FALSE, failed |-> FALSE, up |-> Usable(k),
   stale |-> /\ cache[k].val.cols # {}
             /\ cache[k].val # QueryResult(k, lights)
             /\ ~Clearing]

\* The cached wrapper, called: a hit is served at once; on a miss the key's
\* compute lock is taken and the accessor's body runs its query.
ReadCall(s, k) ==
  /\ pc[s] = "idle"
  /\ IF cache[k] # NoEntry
     THEN /\ ret' = HitRet(s, k)
          /\ UNCHANGED <<pc, loc, engineRes, sfRes>>
     ELSE /\ \A t \in sessions \ {s} : ~(pc[t] = "rd_store" /\ loc[t].key = k)
          /\ engineRes' = IF k.acc \in PgAccessors
                          THEN get_sqlalchemy_engine(engineRes) ELSE engineRes
          /\ sfRes' = IF k.acc \in SfAccessors
                      THEN get_snowflake_connection(sfRes, sfLib, sfEnabled, sfUp)
                      ELSE sfRes
          /\ loc' = [loc EXCEPT ![s] =
                       [op |-> "read", key |-> k,
                        res |-> IF k.acc \in PgAccessors
                                THEN execute_query(engineRes', pgUp,
                                                   QueryResult(k, lights))
                                ELSE execute_snowflake_query(
                                       sfRes', sfUp, QueryResult(k, lights))]]
          /\ pc' = [pc EXCEPT ![s] = "rd_store"]
          /\ ret' = NoRet
  /\ UNCHANGED <<gen, sessions, auto_refresh, last_maintenance, map_obj, sfCreds, sfTrained, called, lights, pgUp, sfUp, sfLib, sfEnabled,
                 connRes, connTxn, pending, cache>>

\* The body returned: its value is written to the cache and handed back (an
\* exception would propagate and write nothing).
ReadStore(s) ==
  LET k == loc[s].key
      r == loc[s].res IN
  /\ pc[s] = "rd_store"
  /\ cache' = IF r.raised THEN cache
              ELSE [cache EXCEPT ![k] = [val |-> r.val, age |-> 0]]
  /\ ret' = [op |-> "read", s |-> s, key |-> k, val |-> r.val, hit |-> FALSE,
             raised |-> r.raised, failed |-> r.failed, up |-> Usable(k),
             stale |-> FALSE]
  /\ pc' = [pc EXCEPT ![s] = "idle"]
  /\ loc' = [loc EXCEPT ![s] = NoLoc]
  /\ UNCHANGED <<gen, sessions, auto_refresh, last_maintenance, map_obj, sfCreds, sfTrained, called, lights, pgUp, sfUp, sfLib, sfEnabled, engineRes,
                 connRes, sfRes, connTxn, pending>>


\* ----------------------------------------------------------- write accessors
Min(a, b) == IF a <= b THEN a ELSE b

\* What the shared connection shows to its own statements.
View == [l \in LightIds |-> IF pending[l] # "none" THEN pending[l] ELSE lights[l]]

\* cursor.execute on the shared connection: a closed connection and an aborted
\* transaction reject every statement, a lost server closes the connection.
Execute(txn, up) ==
  IF txn = "closed" THEN [raises |-> TRUE, txn |-> "closed"]
  ELSE IF ~up THEN [raises |-> TRUE, txn |-> "closed"]
  ELSE IF txn = "aborted" THEN [raises |-> TRUE, txn |-> "aborted"]
  ELSE [raises |-> FALSE, txn |-> "open"]

\* get_all_lights.clear() in place of the global clear.
cache_data_clear_lights_only(c) ==
  [c EXCEPT ![Key("get_all_lights", NoArg)] = NoEntry]

\* st.cache_data.clear()
cache_data_clear(c) == EmptyCache

WriteRet(s, w, ok, msg) ==
  [op |-> w.op, s |-> s, ok |-> ok, msg |-> msg, up |-> pgUp,
   updated |-> w.updated, dropped |-> 0,
   light_id |-> w.light_id, count |-> w.count, changed |-> w.changed,
   fromOp |-> w.fromOp, toSt |-> w.toSt, opBefore |-> w.opBefore,
   cleared |-> w.cleared, picked |-> w.picked, atUpdate |-> w.atUpdate]

WriteLoc(op, lid, n) ==
  [op |-> op, light_id |-> lid, count |-> n, updated |-> FALSE,
   changed |-> {}, fromOp |-> TRUE, toSt |-> {}, opBefore |-> 0,
   cleared |-> FALSE, picked |-> FALSE, atUpdate |-> "none"]

NoConnection(op, s, lid, n) ==
  WriteRet(s, WriteLoc(op, lid, n), FALSE, "No database connection")

\* UPDATE ... SET status = 'faulty' WHERE light_id = %s, run for session s
\* whose locals are w
UpdateFaulty(s, w) ==
  LET e == Execute(connTxn, pgUp) IN
  /\ connTxn' = e.txn
  /\ IF e.raises
     THEN /\ pending' = NoPending
          /\ ret' = WriteRet(s, w, FALSE, "Failed to simulate failure")
          /\ pc' = [pc EXCEPT ![s] = "idle"]
          /\ loc' = [loc EXCEPT ![s] = NoLoc]
     ELSE /\ pending' = IF w.light_id \in LightIds
                        THEN [pending EXCEPT ![w.light_id] = "faulty"]
                        ELSE pending
          /\ pc' = [pc EXCEPT ![s] = "w_commit"]
          /\ loc' = [loc EXCEPT ![s] =
                       [w EXCEPT !.updated = TRUE,
                                 !.atUpdate = IF w.light_id \in LightIds
                                              THEN View[w.light_id]
                                              ELSE "none"]]
          /\ ret' = NoRet

\* simulate_light_failure(light_id): conn = get_connection(), then the first
\* statement: the SELECT of a random operational light when light_id is None,
\* the UPDATE of the given light otherwise.
SimCall(s, lid) ==
  LET e == Execute(connTxn, pgUp)
      ops == {l \in LightIds : View[l] = "operational"} IN
  /\ pc[s] = "idle"
  /\ connRes' = get_connection(connRes, pgUp)
  /\ IF connRes' = "none"
     THEN /\ ret' = NoConnection("sim", s, lid, 0)
          /\ UNCHANGED <<pc, loc, connTxn, pending>>
     ELSE IF lid # NoLight
          THEN UpdateFaulty(s, WriteLoc("sim", lid, 0))
          ELSE /\ connTxn' = e.txn
               /\ pending' = IF e.raises THEN NoPending ELSE pending
               /\ IF e.raises
                  THEN /\ ret' = [NoConnection("sim", s, lid, 0) EXCEPT
                                    !.msg = "Failed to simulate failure"]
                       /\ UNCHANGED <<pc, loc>>
                  ELSE IF ops = {}
                       THEN /\ ret' = [NoConnection("sim", s, lid, 0) EXCEPT
                                         !.msg = "No operational lights found"]
                            /\ UNCHANGED <<pc, loc>>
                       ELSE /\ \E l \in ops :
                                 loc' = [loc EXCEPT ![s] =
                                           [WriteLoc("sim", l, 0) EXCEPT
                                              !.picked = TRUE]]
                            /\ pc' = [pc EXCEPT ![s] = "sim_update"]
                            /\ ret' = NoRet
  /\ UNCHANGED <<gen, sessions, auto_refresh, last_maintenance, map_obj, sfCreds, sfTrained, called, lights, pgUp, sfUp, sfLib, sfEnabled,
                 engineRes, sfRes, cache>>

\* The UPDATE that follows the SELECT.
SimUpdate(s) ==
  /\ pc[s] = "sim_update"
  /\ UpdateFaulty(s, loc[s])
  /\ UNCHANGED <<gen, sessions, auto_refresh, last_maintenance, map_obj, sfCreds, sfTrained, called, lights, pgUp, sfUp, sfLib, sfEnabled,
                 engineRes, connRes, sfRes, cache>>

\* The subquery without its LIMIT.
MaintenancePicks_unlimited(ops, n) == {ops}

\* The rows the UPDATE's subquery picks: LIMIT n of the operational lights in
\* random order.
MaintenancePicks(ops, n) ==
  {S \in SUBSET ops : Cardinality(S) = Min(n, Cardinality(ops))}

\* trigger_scheduled_maintenance(count): conn = get_connection(), then
\* UPDATE ... SET status = 'maintenance_required' WHERE light_id IN
\*   (SELECT ... WHERE status = 'operational' ORDER BY RANDOM() LIMIT %s)
TrigCall(s, n) ==
  LET e == Execute(connTxn, pgUp)
      ops == {l \in LightIds : View[l] = "operational"}
      failed == [NoConnection("trig", s, NoLight, n) EXCEPT
                   !.msg = "Failed to trigger maintenance"] IN
  /\ pc[s] = "idle"
  /\ connRes' = get_connection(connRes, pgUp)
  /\ IF connRes' = "none"
     THEN /\ ret' = NoConnection("trig", s, NoLight, n)
          /\ UNCHANGED <<pc, loc, connTxn, pending>>
     ELSE IF e.raises
          THEN /\ connTxn' = e.txn
               /\ pending' = NoPending
               /\ ret' = failed
               /\ UNCHANGED <<pc, loc>>
          ELSE IF n < 0
               THEN /\ connTxn' = "aborted"
                    /\ pending' = NoPending
                    /\ ret' = failed
                    /\ UNCHANGED <<pc, loc>>
               ELSE /\ connTxn' = e.txn
                    /\ \E S \in MaintenancePicks(ops, n) :
                         pending' = [l \in LightIds |->
                                       IF l \in S THEN "maintenance_required"
                                       ELSE pending[l]]
                    /\ loc' = [loc EXCEPT ![s] =
                                 [WriteLoc("trig", NoLight, n) EXCEPT
                                    !.opBefore = Cardinality(ops),
                                    !.updated = TRUE]]
                    /\ pc' = [pc EXCEPT ![s] = "w_commit"]
                    /\ ret' = NoRet
  /\ UNCHANGED <<gen, sessions, auto_refresh, last_maintenance, map_obj, sfCreds, sfTrained, called, lights, pgUp, sfUp, sfLib, sfEnabled,
                 engineRes, sfRes, cache>>

\* conn.commit() on a connection in autocommit mode: every statement was
\* applied when it ran.
CommitResult_autocommit(txn, up, L, V) ==
  IF txn = "closed" \/ ~up
  THEN [raises |-> TRUE, txn |-> "closed", lights |-> V, stamped |-> TRUE]
  ELSE [raises |-> FALSE, txn |-> "idle", lights |-> V, stamped |-> TRUE]

\* conn.commit() on the shared connection whose transaction is txn, the
\* store holding L and the transaction showing V: a closed connection and a
\* lost server raise and commit nothing; on an aborted transaction the store
\* rolls back and reports no error.
CommitResult(txn, up, L, V) ==
  IF txn = "closed" \/ ~up
  THEN [raises |-> TRUE, txn |-> "closed", lights |-> L, stamped |-> FALSE]
  ELSE IF txn = "aborted"
       THEN [raises |-> FALSE, txn |-> "idle", lights |-> L,
             stamped |-> FALSE]
       ELSE [raises |-> FALSE, txn |-> "idle", lights |-> V, stamped |-> TRUE]

Commit(s) ==
  LET c == CommitResult(connTxn, pgUp, lights, View)
      diff == {l \in LightIds : c.lights[l] # lights[l]}
      w == [loc[s] EXCEPT
              !.changed = diff,
              !.fromOp = \A l \in diff : lights[l] = "operational",
              !.toSt = {c.lights[l] : l \in diff}] IN
  /\ pc[s] = "w_commit"
  /\ lights' = c.lights
  /\ last_maintenance' =
       [l \in LightIds |->
          IF c.stamped /\ pending[l] = "faulty" THEN "NOW"
          ELSE last_maintenance[l]]
  /\ connTxn' = c.txn
  /\ pending' = NoPending
  /\ IF c.raises
     THEN /\ ret' = WriteRet(s, w, FALSE,
                             IF w.op = "sim" THEN "Failed to simulate failure"
                             ELSE "Failed to trigger maintenance")
          /\ pc' = [pc EXCEPT ![s] = "idle"]
          /\ loc' = [loc EXCEPT ![s] = NoLoc]
     ELSE /\ loc' = [loc EXCEPT ![s] = w]
          /\ pc' = [pc EXCEPT ![s] = "w_clear"]
          /\ ret' = NoRet
  /\ UNCHANGED <<gen, sessions, auto_refresh, map_obj, sfCreds, sfTrained, called, pgUp, sfUp, sfLib, sfEnabled, engineRes,
                 connRes, sfRes, cache>>

\* cursor.close(); st.cache_data.clear(); return True, ...
ClearAndReturn(s) ==
  /\ pc[s] = "w_clear"
  /\ cache' = cache_data_clear(cache)
  /\ ret' = [WriteRet(s, loc[s], TRUE, "done") EXCEPT
               !.cleared = (cache' = EmptyCache),
               !.dropped = Cardinality({k \in Keys : cache[k] # NoEntry})]
  /\ pc' = [pc EXCEPT ![s] = "idle"]
  /\ loc' = [loc EXCEPT ![s] = NoLoc]
  /\ UNCHANGED <<gen, sessions, auto_refresh, last_maintenance, map_obj, sfCreds, sfTrained, called, lights, pgUp, sfUp, sfLib, sfEnabled,
                 engineRes, connRes, sfRes, connTxn, pending>>

\* "Refresh All Data": st.cache_data.clear(); st.rerun()
RefreshAll(s) ==
  /\ pc[s] = "idle"
  /\ cache # EmptyCache
  /\ cache' = EmptyCache
  /\ ret' = [op |-> "refresh", s |-> s]
  /\ UNCHANGED <<gen, sessions, auto_refresh, last_maintenance, map_obj, sfCreds, sfTrained, called, lights, pgUp, sfUp, sfLib, sfEnabled, engineRes,
                 connRes, sfRes, connTxn, pending, pc, loc>>

\* ---------------------------------------------------------- page controllers
\* DataFrame.empty: an axis of length 0.
IsEmpty(df) == df.cols = {} \/ df.rows = <<>>

Pages == {"overview", "faulty", "predictive", "supplier", "live"}

\* Widget values of a render pass.
Kinds == {"bulb", "all"}
ViewModes(kind) ==
  IF kind = "all"
  THEN {"Daily Schedule", "Weekly Summary", "Monthly Budget", "Issue Breakdown"}
  ELSE {"Daily Schedule", "Weekly Summary", "Monthly Budget"}
DefaultUrgency == {"CRITICAL", "HIGH", "MEDIUM"}
UrgencyFilters == {{}, DefaultUrgency}
DefaultTiers == {"HIGH", "MEDIUM"}
TierFilters == {{}, {"MEDIUM"}, DefaultTiers}
Selections == {{}, {"Indiranagar"}}
MaxDistances == {5, 20}

DefaultInputs ==
  [selected |-> {}, max_distance |-> 20, kind |-> "bulb",
   view_mode |-> "Daily Schedule", days_ahead |-> 30,
   urgency_filter |-> DefaultUrgency, priority_filter |-> DefaultTiers,
   show_connections |-> TRUE]

Inputs(p) ==
  CASE p = "overview" ->
         {[DefaultInputs EXCEPT !.selected = x] : x \in Selections}
    [] p = "faulty" ->
         {[DefaultInputs EXCEPT !.selected = x, !.max_distance = d] :
            x \in Selections, d \in MaxDistances}
    [] p = "predictive" ->
         {[DefaultInputs EXCEPT !.kind = f[1], !.view_mode = f[2],
                                !.days_ahead = f[3], !.urgency_filter = f[4],
                                !.priority_filter = f[5]] :
            f \in {g \in Kinds \X ViewModes("all") \X DaysArgs
                            \X UrgencyFilters \X TierFilters :
                     /\ g[2] \in ViewModes(g[1])
                     /\ g[2] # "Daily Schedule" => g[5] = DefaultTiers}}
    [] p = "supplier" ->
         {[DefaultInputs EXCEPT !.show_connections = b] : b \in BOOLEAN}
    [] OTHER -> {DefaultInputs}

\* The table the cached accessor of key k hands to a render pass.
Fetch(k) ==
  IF cache[k] # NoEntry THEN cache[k].val
  ELSE IF k.acc \in PgAccessors
       THEN execute_query(get_sqlalchemy_engine(engineRes), pgUp,
                          QueryResult(k, lights)).val
       ELSE execute_snowflake_query(
              get_snowflake_connection(sfRes, sfLib, sfEnabled, sfUp), sfUp,
              QueryResult(k, lights)).val

K0(a) == Key(a, NoArg)

\* A pass that ran to its end, and one that an exception ended after it had
\* shown some of its elements.
Rendered(calls, shown) ==
  [calls |-> calls, raised |-> FALSE, error |-> "none", shown |-> shown]
Crashed(calls, error, shown) ==
  [calls |-> calls, raised |-> TRUE, error |-> error, shown |-> shown]

\* is_snowflake_available()
is_snowflake_available ==
  /\ sfLib
  /\ sfEnabled
  /\ get_snowflake_connection(sfRes, sfLib, sfEnabled, sfUp) # "none"

\* The rows of lights_df the neighborhood filter of the overview keeps:
\* isin(selected) with nothing selected keeps no row.
FilteredLights_isin(lights_df, neighborhoods_df, selected) ==
  {i \in 1..Len(lights_df.rows) :
     lights_df.rows[i].neighborhood_name \in selected}

FilteredLights(lights_df, neighborhoods_df, selected) ==
  LET options == IF IsEmpty(neighborhoods_df) THEN {}
                 ELSE {neighborhoods_df.rows[i].name :
                         i \in 1..Len(neighborhoods_df.rows)}
      selected_neighborhoods == selected \cap options IN
  {i \in 1..Len(lights_df.rows) :
     selected_neighborhoods # {} =>
       lights_df.rows[i].neighborhood_name \in selected_neighborhoods}

\* page == "Neighborhood Overview"
OverviewPage(in) ==
  LET lights_df == Fetch(K0("get_all_lights"))
      loads == {K0("get_all_lights"), K0("get_neighborhoods"),
                K0("get_suppliers")}
      stats_df == Fetch(K0("get_neighborhood_stats")) IN
  IF "status" \notin lights_df.cols THEN Crashed(loads, "KeyError", {})
  ELSE IF Len(lights_df.rows) = 0
       THEN Crashed(loads, "ZeroDivisionError", {})
  ELSE Rendered(loads \cup {K0("get_neighborhood_stats")},
                {"metrics", "map"} \cup
                  (IF IsEmpty(stats_df) THEN {} ELSE {"stats_table"}))

\* filtered_df: the rows of faulty_df the two filters of the page keep.
FilteredFaulty_strict(faulty_df, selected, max_distance) ==
  LET options == IF IsEmpty(faulty_df) THEN {}
                 ELSE {faulty_df.rows[i].neighborhood :
                         i \in 1..Len(faulty_df.rows)}
      selected_nh == selected \cap options IN
  {i \in 1..Len(faulty_df.rows) :
     /\ selected_nh # {} => faulty_df.rows[i].neighborhood \in selected_nh
     /\ faulty_df.rows[i].distance_km < max_distance}

FilteredFaulty(faulty_df, selected, max_distance) ==
  LET options == IF IsEmpty(faulty_df) THEN {}
                 ELSE {faulty_df.rows[i].neighborhood :
                         i \in 1..Len(faulty_df.rows)}
      selected_nh == selected \cap options IN
  {i \in 1..Len(faulty_df.rows) :
     /\ selected_nh # {} => faulty_df.rows[i].neighborhood \in selected_nh
     /\ faulty_df.rows[i].distance_km <= max_distance}

\* page == "Faulty Lights Analysis"
FaultyPage(in) ==
  LET faulty_df == Fetch(K0("get_faulty_lights_with_supplier"))
      loads == {K0("get_faulty_lights_with_supplier"), K0("get_all_lights"),
                K0("get_neighborhoods")}
      filtered == FilteredFaulty(faulty_df, in.selected, in.max_distance) IN
  IF "distance_km" \notin faulty_df.cols
  THEN Crashed(loads, "KeyError", {"metrics"})
  ELSE Rendered(loads,
                {"metrics", "map"} \cup
                  (IF filtered # {} THEN {"table"}
                   ELSE {"No faulty lights match the selected filters"}))

\* The forecast accessors one kind and view mode call, the seasonal forecast
\* included.
ForecastLoads(kind) ==
  IF kind = "bulb"
  THEN {K0("get_snowflake_forecast_30d"), K0("get_snowflake_forecast_metrics")}
  ELSE {K0("get_snowflake_all_issues_forecast_30d"),
        K0("get_snowflake_all_issues_metrics")}

ViewLoads(kind, view_mode) ==
  CASE view_mode = "Weekly Summary" ->
         IF kind = "bulb" THEN {K0("get_snowflake_weekly_forecast")}
         ELSE {K0("get_snowflake_weekly_all_issues_forecast")}
    [] view_mode = "Monthly Budget" ->
         IF kind = "bulb" THEN {K0("get_snowflake_monthly_budget")}
         ELSE {K0("get_snowflake_all_issues_monthly_budget")}
    [] view_mode = "Issue Breakdown" ->
         {K0("get_snowflake_forecast_comparison"),
          K0("get_snowflake_issue_type_distribution")}
    [] OTHER -> {}

\* forecast_30d of the kind, and the column its tier filter reads.
Forecast30d(kind) ==
  IF kind = "bulb" THEN Fetch(K0("get_snowflake_forecast_30d"))
  ELSE Fetch(K0("get_snowflake_all_issues_forecast_30d"))

TierColumn(kind) == IF kind = "bulb" THEN "PRIORITY" ELSE "WORKLOAD_LEVEL"

\* The rows of forecast_30d the tier filter keeps.
FilteredForecast_unfiltered(kind, priority_filter) ==
  {i \in 1..Len(Forecast30d(kind).rows) : TRUE}

FilteredForecast(kind, priority_filter) ==
  LET df == Forecast30d(kind) IN
  {i \in 1..Len(df.rows) :
     (priority_filter # {} /\ ~IsEmpty(df)) =>
       df.rows[i][TierColumn(kind)] \in priority_filter}

\* What the selected view mode shows: its section, or the notice of an empty
\* table.
ViewNotice(kind, view_mode, priority_filter) ==
  CASE view_mode = "Weekly Summary" ->
         IF \A k \in ViewLoads(kind, view_mode) : IsEmpty(Fetch(k))
         THEN {"No weekly forecast data available"} ELSE {"weekly"}
    [] view_mode = "Monthly Budget" ->
         IF \A k \in ViewLoads(kind, view_mode) : IsEmpty(Fetch(k))
         THEN {"No budget forecast data available"} ELSE {"budget"}
    [] view_mode = "Issue Breakdown" ->
         IF IsEmpty(Fetch(K0("get_snowflake_forecast_comparison")))
         THEN {"No comparison data available"} ELSE {"comparison"}
    [] OTHER ->
         IF FilteredForecast(kind, priority_filter) = {}
         THEN {"No forecast data available for selected filters"}
         ELSE {"daily"}

\* The rows of predictions_df the urgency filter keeps.
FilteredPredictions(predictions_df, urgency_filter) ==
  {i \in 1..Len(predictions_df.rows) :
     urgency_filter # {} =>
       predictions_df.rows[i].maintenance_urgency \in urgency_filter}

\* The locally computed risk-window section that ends the predictive page.
LocalSection(in, calls, shown) ==
  LET key == Key("get_predicted_failures", in.days_ahead)
      predictions_df == Fetch(key)
      loads == calls \cup {key, K0("get_neighborhoods")}
      kept == FilteredPredictions(predictions_df, in.urgency_filter) IN
  IF in.urgency_filter # {} /\ "maintenance_urgency" \notin predictions_df.cols
  THEN Crashed(loads, "KeyError", shown)
  ELSE IF IsEmpty(predictions_df) \/ kept = {}
       THEN Rendered(loads,
                     shown \cup {"No predictions in selected window", "map",
                                 "No predictions match the selected criteria"})
       ELSE Rendered(loads \cup {K0("get_seasonal_patterns")},
                     shown \cup {"urgency_metrics", "map", "table"})

\* page == "Predictive Maintenance"
PredictivePage(in) ==
  LET first == ForecastLoads(in.kind) \cup {K0("get_neighborhoods")} IN
  IF is_snowflake_available
  THEN IF \A k \in ForecastLoads(in.kind) : IsEmpty(Fetch(k))
       THEN Rendered(first, {"ML Model Not Trained Yet"})
       ELSE LocalSection(
              in,
              first \cup ViewLoads(in.kind, in.view_mode)
                    \cup {K0("get_snowflake_seasonal_forecast")},
              {"forecast"}
                \cup ViewNotice(in.kind, in.view_mode, in.priority_filter))
  ELSE LocalSection(in, {}, {"Snowflake ML not connected"})

\* page == "Supplier Coverage"
SupplierPage(in) ==
  LET suppliers_df == Fetch(K0("get_suppliers"))
      coverage_stats == Fetch(K0("get_supplier_coverage"))
      loads == {K0("get_suppliers"), K0("get_supplier_coverage"),
                K0("get_neighborhoods"), K0("get_all_lights")} IN
  Rendered(loads \cup
             (IF in.show_connections \/ ~IsEmpty(suppliers_df)
              THEN {K0("get_neighborhood_supplier_distance")} ELSE {}),
           {"map"} \cup (IF IsEmpty(coverage_stats) THEN {} ELSE {"metrics"})
                   \cup (IF IsEmpty(suppliers_df) THEN {} ELSE {"table"}))

\* page == "Live Demo Controls", up to its buttons
LivePage(in) ==
  LET all_lights == Fetch(K0("get_all_lights")) IN
  Rendered({K0("get_all_lights")},
           {"controls"} \cup (IF IsEmpty(all_lights) THEN {} ELSE {"metrics"}))

PageOutcome(p, in) ==
  CASE p = "overview" -> OverviewPage(in)
    [] p = "faulty" -> FaultyPage(in)
    [] p = "predictive" -> PredictivePage(in)
    [] p = "supplier" -> SupplierPage(in)
    [] OTHER -> LivePage(in)

\* What a page shows in place of data.
Notices ==
  {"No faulty lights match the selected filters", "ML Model Not Trained Yet",
   "Snowflake ML not connected", "No predictions in selected window",
   "No predictions match the selected criteria",
   "No weekly forecast data available", "No budget forecast data available",
   "No comparison data available",
   "No forecast data available for selected filters"}

\* Every cached accessor call a page can make; those of the predictive page
\* for one forecast kind.
PredictiveKeys(kind) ==
  ForecastLoads(kind)
    \cup UNION {ViewLoads(kind, v) : v \in ViewModes(kind)}
    \cup {K0("get_snowflake_seasonal_forecast"), K0("get_neighborhoods"),
          K0("get_seasonal_patterns")}
    \cup {Key("get_predicted_failures", d) : d \in DaysArgs}

PageKeys(p) ==
  CASE p = "overview" ->
         {K0("get_all_lights"), K0("get_neighborhoods"), K0("get_suppliers"),
          K0("get_neighborhood_stats")}
    [] p = "faulty" ->
         {K0("get_faulty_lights_with_supplier"), K0("get_all_lights"),
          K0("get_neighborhoods")}
    [] p = "predictive" -> UNION {PredictiveKeys(f) : f \in Kinds}
    [] p = "supplier" ->
         {K0("get_suppliers"), K0("get_supplier_coverage"),
          K0("get_neighborhoods"), K0("get_all_lights"),
          K0("get_neighborhood_supplier_distance")}
    [] OTHER -> {K0("get_all_lights")}

\* The auto-refresh control that ends the live page: with the checkbox
\* ticked the pass sleeps and then re-runs the script, otherwise it ends.
AUTO_REFRESH_INTERVAL == 30
SleepSecs == 30
time_sleep(secs) == secs

AutoRefresh_always(auto) == "sleep"

AutoRefresh(auto) == IF auto THEN "sleep" ELSE "idle"

\* The table a page filters, and the rows of it the filters keep.
PageTable(p, in) ==
  CASE p = "faulty" -> Fetch(K0("get_faulty_lights_with_supplier"))
    [] p = "overview" -> Fetch(K0("get_all_lights"))
    [] p = "predictive" /\ is_snowflake_available -> Forecast30d(in.kind)
    [] OTHER -> EmptyFrame

PageKept(p, in) ==
  CASE p = "faulty" ->
         FilteredFaulty(Fetch(K0("get_faulty_lights_with_supplier")),
                        in.selected, in.max_distance)
    [] p = "overview" ->
         FilteredLights(Fetch(K0("get_all_lights")),
                        Fetch(K0("get_neighborhoods")), in.selected)
    [] p = "predictive" /\ is_snowflake_available ->
         FilteredForecast(in.kind, in.priority_filter)
    [] OTHER -> {}

\* The options the neighborhood multiselect of a page offers.
PageOptions(p, in) ==
  LET neighborhoods_df == Fetch(K0("get_neighborhoods"))
      faulty_df == Fetch(K0("get_faulty_lights_with_supplier")) IN
  CASE p = "overview" ->
         {neighborhoods_df.rows[i].name :
            i \in 1..Len(neighborhoods_df.rows)}
    [] p = "faulty" ->
         {faulty_df.rows[i].neighborhood : i \in 1..Len(faulty_df.rows)}
    [] OTHER -> {}

\* predictions_df of a pass that reached the local section.
LocalTable(in, calls) ==
  IF Key("get_predicted_failures", in.days_ahead) \in calls
  THEN Fetch(Key("get_predicted_failures", in.days_ahead))
  ELSE EmptyFrame

\* The accessors a pass calls before anything else.
FirstLoads(p, in) ==
  CASE p = "overview" -> {K0("get_all_lights"), K0("get_suppliers")}
    [] p = "faulty" -> {K0("get_faulty_lights_with_supplier")}
    [] p = "predictive" ->
         IF is_snowflake_available THEN ForecastLoads(in.kind)
         ELSE {K0("get_neighborhoods")}
    [] p = "supplier" -> {K0("get_supplier_coverage")}
    [] OTHER -> {K0("get_all_lights")}

\* One render pass of page p with widget values in: every accessor it calls
\* goes through the cache.  The session makes the passes whose accessor calls
\* are among the calls it makes.
Render(s, p, in) ==
  /\ pc[s] \in {"idle", "due", "rerun"}
  /\ pc[s] # "idle" => p = "live"
  /\ FirstLoads(p, in) \subseteq called
  /\ \E o \in {PageOutcome(p, in)} :
       \E misses \in {{k \in o.calls : cache[k] = NoEntry}} :
         /\ o.calls \subseteq called
         /\ cache' = [k \in Keys |->
                        IF k \in misses THEN [val |-> Fetch(k), age |-> 0]
                        ELSE cache[k]]
         /\ engineRes' = IF \E k \in misses : k.acc \in PgAccessors
                         THEN get_sqlalchemy_engine(engineRes) ELSE engineRes
         /\ sfRes' = IF \/ p = "predictive" /\ sfLib /\ sfEnabled
                        \/ \E k \in misses : k.acc \in SfAccessors
                     THEN get_snowflake_connection(sfRes, sfLib, sfEnabled,
                                                   sfUp)
                     ELSE sfRes
         /\ ret' = [op |-> "render", s |-> s, page |-> p, in |-> in,
                    avail |-> p = "predictive" /\ is_snowflake_available,
                    configured |-> sfLib /\ sfCreds /\ sfUp,
                    calls |-> o.calls, raised |-> o.raised,
                    error |-> o.error, shown |-> o.shown,
                    table |-> PageTable(p, in), kept |-> PageKept(p, in),
                    allEmpty |-> \A k \in o.calls : IsEmpty(Fetch(k)),
                    options |-> PageOptions(p, in),
                    local |-> LocalTable(in, o.calls),
                    localKept |->
                      FilteredPredictions(LocalTable(in, o.calls),
                                          in.urgency_filter),
                    forced |-> pc[s] = "rerun",
                    slept |-> IF pc[s] = "rerun" THEN loc[s].slept ELSE 0,
                    auto |-> pc[s] = "rerun" /\ loc[s].auto]
  /\ pc' = [pc EXCEPT ![s] = AutoRefresh(p = "live" /\ auto_refresh[s])]
  /\ loc' = [loc EXCEPT ![s] =
               IF pc'[s] = "sleep"
               THEN [op |-> "live", auto |-> auto_refresh[s], slept |-> 0]
               ELSE NoLoc]
  /\ UNCHANGED <<gen, sessions, auto_refresh, last_maintenance, map_obj, sfCreds, sfTrained, called, lights, pgUp, sfUp, sfLib, sfEnabled,
                 connRes, connTxn, pending>>

\* The checkbox is ticked or cleared: a widget interaction asks for a re-run
\* of the script, which a sleeping pass answers when it wakes.
ToggleAutoRefresh(s) ==
  /\ pc[s] \in {"idle", "due", "sleep", "rerun"}
  /\ auto_refresh' = [auto_refresh EXCEPT ![s] = ~@]
  /\ pc' = [pc EXCEPT ![s] = IF @ = "idle" THEN "due" ELSE @]
  /\ ret' = NoRet
  /\ UNCHANGED <<gen, sessions, last_maintenance, map_obj, sfCreds, sfTrained,
                 called, lights, pgUp, sfUp, sfLib, sfEnabled, engineRes,
                 connRes, sfRes, connTxn, pending, cache, loc>>

\* time.sleep(30) returns and st.rerun() ends the pass.
Wake(s) ==
  /\ pc[s] = "sleep"
  /\ loc' = [loc EXCEPT ![s].slept = time_sleep(SleepSecs)]
  /\ pc' = [pc EXCEPT ![s] = "rerun"]
  /\ ret' = NoRet
  /\ UNCHANGED <<gen, sessions, auto_refresh, last_maintenance, map_obj, sfCreds, sfTrained,
                 called, lights, pgUp, sfUp, sfLib, sfEnabled, engineRes,
                 connRes, sfRes, connTxn, pending, cache>>

\* --------------------------------------------------------- map composition
\* create_base_map(): a new map object with no layer.
create_base_map(last) == [handle |-> last + 1, layers |-> <<>>]

\* json.loads of a boundary_geojson value.
json_loads(text) ==
  IF text = "malformed" THEN [raised |-> TRUE, type |-> "none"]
  ELSE [raised |-> FALSE, type |-> text]

\* The layers a loop over the rows adds, given the layers of each row.
RECURSIVE Flatten(_)
Flatten(ss) == IF ss = <<>> THEN <<>> ELSE Head(ss) \o Flatten(Tail(ss))

LayersOf(perRow) == Flatten(perRow)

RECURSIVE FirstRaise(_, _)
FirstRaise(rows, n) ==
  IF n > Len(rows) THEN n
  ELSE IF json_loads(rows[n].boundary_geojson).raised THEN n
       ELSE FirstRaise(rows, n + 1)

AddTo(m, added) == [m EXCEPT !.layers = @ \o added]

\* add_neighborhoods_layer without the per-row try: the first malformed
\* boundary ends the call.
add_neighborhoods_layer_no_try(m, neighborhoods_df) ==
  IF IsEmpty(neighborhoods_df) THEN [map |-> m, raised |-> FALSE]
  ELSE LET stop == FirstRaise(neighborhoods_df.rows, 1)
           polygon(i) == <<"GeoJson">> IN
       [map |-> AddTo(m, LayersOf([i \in 1..(stop - 1) |-> polygon(i)])),
        raised |-> stop <= Len(neighborhoods_df.rows)]

add_neighborhoods_layer(m, neighborhoods_df) ==
  IF IsEmpty(neighborhoods_df) THEN [map |-> m, raised |-> FALSE]
  ELSE LET polygon(i) ==
             IF json_loads(neighborhoods_df.rows[i].boundary_geojson).raised
             THEN <<>> ELSE <<"GeoJson">> IN
       [map |-> AddTo(m, LayersOf([i \in 1..Len(neighborhoods_df.rows) |->
                                     polygon(i)])),
        raised |-> FALSE]

\* add_lights_layer without the empty-table return.
add_lights_layer_no_guard(m, lights_df) ==
  [map |-> AddTo(m, <<"MarkerCluster">>), raised |-> lights_df.cols = {}]

add_lights_layer(m, lights_df) ==
  IF IsEmpty(lights_df) THEN [map |-> m, raised |-> FALSE]
  ELSE [map |-> AddTo(m, <<"MarkerCluster">>), raised |-> FALSE]

add_suppliers_layer(m, suppliers_df) ==
  IF IsEmpty(suppliers_df) THEN [map |-> m, raised |-> FALSE]
  ELSE LET marker(i) == <<"Marker", "Circle">> IN
       [map |-> AddTo(m, LayersOf([i \in 1..Len(suppliers_df.rows) |->
                                     marker(i)])),
        raised |-> FALSE]

add_predicted_failures_layer(m, predictions_df) ==
  IF IsEmpty(predictions_df) THEN [map |-> m, raised |-> FALSE]
  ELSE LET marker(i) == <<"CircleMarker">> IN
       [map |-> AddTo(m, LayersOf([i \in 1..Len(predictions_df.rows) |->
                                     marker(i)])),
        raised |-> FALSE]

\* The connection lines go into one feature group, which is the layer added.
add_neighborhood_supplier_lines(m, neighborhood_supplier_df, neighborhoods_df, suppliers_df) ==
  IF \/ IsEmpty(neighborhood_supplier_df)
     \/ IsEmpty(neighborhoods_df)
     \/ IsEmpty(suppliers_df)
  THEN [map |-> m, raised |-> FALSE]
  ELSE [map |-> AddTo(m, <<"FeatureGroup">>), raised |-> FALSE]

\* The tables the layers are drawn from: the frame of a failed query, a result
\* without rows, and results of up to MaxRows rows.
Boundaries == {"Polygon", "MultiPolygon", "malformed"}

NeighborhoodTables ==
  {EmptyFrame} \cup
  {[cols |-> Columns("get_neighborhoods"),
    rows |-> [i \in DOMAIN b |->
                [name |-> i, population |-> 1000, boundary_geojson |-> b[i]]]] :
     b \in UNION {[1..k -> Boundaries] : k \in 0..MaxRows}}

RowTables(a) ==
  {EmptyFrame} \cup
  {[cols |-> Columns(a), rows |-> [i \in 1..n |-> [id |-> i]]] :
     n \in 0..MaxRows}

LayerFns ==
  {"add_neighborhoods_layer", "add_lights_layer", "add_suppliers_layer",
   "add_predicted_failures_layer", "add_neighborhood_supplier_lines"}

\* One call m = add_..._layer(m, ...) of a page composing its map.
LayerCall(fn, tables, out) ==
  /\ Len(map_obj.layers) < MaxLayers
  /\ map_obj' = out.map
  /\ ret' = [op |-> "layer", fn |-> fn, tables |-> tables, before |-> map_obj,
             after |-> out.map, raised |-> out.raised]
  /\ UNCHANGED <<gen, sessions, auto_refresh, last_maintenance, sfCreds, sfTrained, called, lights, pgUp, sfUp,
                 sfLib, sfEnabled, engineRes, connRes, sfRes, connTxn, pending,
                 cache, pc, loc>>

CreateBaseMap ==
  /\ map_obj.handle < MaxMaps
  /\ map_obj' = create_base_map(map_obj.handle)
  /\ ret' = NoRet
  /\ UNCHANGED <<gen, sessions, auto_refresh, last_maintenance, sfCreds, sfTrained, called, lights, pgUp, sfUp,
                 sfLib, sfEnabled, engineRes, connRes, sfRes, connTxn, pending,
                 cache, pc, loc>>

AddNeighborhoods ==
  \E df \in NeighborhoodTables :
    LayerCall("add_neighborhoods_layer", <<df>>,
              add_neighborhoods_layer(map_obj, df))

AddLights ==
  \E df \in RowTables("get_all_lights") :
    LayerCall("add_lights_layer", <<df>>, add_lights_layer(map_obj, df))

AddSuppliers ==
  \E df \in RowTables("get_suppliers") :
    LayerCall("add_suppliers_layer", <<df>>, add_suppliers_layer(map_obj, df))

AddPredictedFailures ==
  \E df \in RowTables("get_predicted_failures") :
    LayerCall("add_predicted_failures_layer", <<df>>,
              add_predicted_failures_layer(map_obj, df))

AddSupplierLines ==
  \E d \in RowTables("get_neighborhood_supplier_distance"),
     n \in RowTables("get_neighborhoods"), u \in RowTables("get_suppliers") :
    LayerCall("add_neighborhood_supplier_lines", <<d, n, u>>,
              add_neighborhood_supplier_lines(map_obj, d, n, u))

\* ------------------------------------------------------------ configuration
\* The connection parameters of each store, and where a value can come from.
PostgresParams == {"host", "port", "database", "user", "password"}
SnowflakeParams ==
  {"account", "user", "password", "warehouse", "database", "schema"}
StoreParams(store) ==
  IF store = "postgres" THEN PostgresParams ELSE SnowflakeParams

\* os.getenv(NAME, default)
getenv(env, param) == IF env[param] THEN "env" ELSE "default"

\* The module-level try/except of config.py: the dict literal reads every
\* st.secrets[store][param]; a missing key raises KeyError and the except
\* branch builds the whole dict from the environment.
ResolveConfig(params, secrets, env) ==
  IF \A q \in params : secrets[q]
  THEN [q \in params |-> "secret"]
  ELSE [q \in params |-> getenv(env, q)]

POSTGIS_CONFIG(secrets, env) == ResolveConfig(PostgresParams, secrets, env)
SNOWFLAKE_CONFIG(secrets, env) == ResolveConfig(SnowflakeParams, secrets, env)

\* import config: the parameters of a store are resolved from the secrets
\* store and the environment the process was started with.
ImportConfig(store) ==
  /\ ret = NoRet
  /\ \E secrets \in [StoreParams(store) -> BOOLEAN],
        env \in [StoreParams(store) -> BOOLEAN] :
       ret' = [op |-> "import", store |-> store, secrets |-> secrets,
               env |-> env,
               config |-> IF store = "postgres"
                          THEN POSTGIS_CONFIG(secrets, env)
                          ELSE SNOWFLAKE_CONFIG(secrets, env)]
  /\ UNCHANGED <<gen, sessions, auto_refresh, last_maintenance, map_obj, sfCreds, sfTrained,
                 called, lights, pgUp, sfUp, sfLib, sfEnabled, engineRes,
                 connRes, sfRes, connTxn, pending, cache, pc, loc>>

\* ------------------------------------------------------------- environment
\* Time passes: an entry that has reached its accessor's ttl is gone.
Aged_kept(k, e) ==
  IF e = NoEntry THEN NoEntry ELSE [e EXCEPT !.age = @ + TickSecs]

Aged(k, e) ==
  IF e = NoEntry THEN NoEntry
  ELSE IF e.age + TickSecs >= TTL(k.acc) THEN NoEntry
       ELSE [e EXCEPT !.age = @ + TickSecs]

Tick ==
  /\ cache # EmptyCache
  /\ cache' = [k \in Keys |-> Aged(k, cache[k])]
  /\ UNCHANGED <<gen, sessions, auto_refresh, last_maintenance, map_obj, sfCreds, sfTrained, called, lights, pgUp, sfUp, sfLib, sfEnabled, engineRes,
                 connRes, sfRes, connTxn, pending, pc, loc>>
  /\ ret' = NoRet

PgOutage ==
  /\ pgUp
  /\ pgUp' = FALSE
  /\ UNCHANGED <<gen, sessions, auto_refresh, last_maintenance, map_obj, sfCreds, sfTrained, called, lights, sfUp, sfLib, sfEnabled, engineRes, connRes,
                 sfRes, connTxn, pending, cache, pc, loc>>
  /\ ret' = NoRet

PgRecover ==
  /\ ~pgUp
  /\ pgUp' = TRUE
  /\ UNCHANGED <<gen, sessions, auto_refresh, last_maintenance, map_obj, sfCreds, sfTrained, called, lights, sfUp, sfLib, sfEnabled, engineRes, connRes,
                 sfRes, connTxn, pending, cache, pc, loc>>
  /\ ret' = NoRet

\* The ML store is contacted only where it is configured.
SfOutage ==
  /\ sfLib /\ sfEnabled
  /\ sfUp
  /\ sfUp' = FALSE
  /\ UNCHANGED <<gen, sessions, auto_refresh, last_maintenance, map_obj, sfCreds, sfTrained, called, lights, pgUp, sfLib, sfEnabled, engineRes, connRes,
                 sfRes, connTxn, pending, cache, pc, loc>>
  /\ ret' = NoRet

SfRecover ==
  /\ sfLib /\ sfEnabled
  /\ ~sfUp
  /\ sfUp' = TRUE
  /\ UNCHANGED <<gen, sessions, auto_refresh, last_maintenance, map_obj, sfCreds, sfTrained, called, lights, pgUp, sfLib, sfEnabled, engineRes, connRes,
                 sfRes, connTxn, pending, cache, pc, loc>>
  /\ ret' = NoRet

\* The secrets store or the environment is edited while the process runs:
\* config.py is not evaluated again.
Reconfigure ==
  /\ sfCreds' = ~sfCreds
  /\ ret' = NoRet
  /\ UNCHANGED <<gen, sessions, auto_refresh, last_maintenance, map_obj, sfTrained, called, lights, pgUp, sfUp, sfLib,
                 sfEnabled, engineRes, connRes, sfRes, connTxn, pending, cache,
                 pc, loc>>

\* ---------------------------------------------------------- data generation
\* src/data/generate_all.py: the generators in the order main runs them, and
\* the file each one writes into the working directory.
generators ==
  <<"neighborhoods", "street lights", "maintenance history", "suppliers",
    "enrichment data">>

full_files ==
  <<"neighborhoods.csv", "street_lights.csv", "maintenance_requests.csv",
    "suppliers.csv", "weather_enrichment.csv">>

data_dir == "src/data"
Dirs == {data_dir, "repo", "home"}

\* What a generator reads from the working directory:
\* generate_maintenance_history.load_street_lights opens street_lights.csv.
Reads(i) == IF generators[i] = "maintenance history"
            THEN {"street_lights.csv"} ELSE {}

NotRun ==
  [pc |-> "none", cwd |-> data_dir, before |-> data_dir,
   original_dir |-> "unset", i |-> 0, started |-> <<>>, raised |-> 0,
   files |-> {}, status |-> -1]

\* A process about to call main, in some working directory, the data
\* directory holding the files of earlier runs.
GenInits ==
  {[NotRun EXCEPT !.pc = "main", !.cwd = d, !.before = d, !.files = f] :
     d \in Dirs, f \in SUBSET {full_files[i] : i \in DOMAIN full_files}}

\* original_dir = os.getcwd(); os.chdir(data_dir)
Chdir ==
  /\ gen.pc = "main"
  /\ gen' = [gen EXCEPT !.pc = "for", !.original_dir = gen.cwd,
                         !.cwd = data_dir, !.i = 1]
  /\ UNCHANGED dashboard

\* for i, (name, func) in enumerate(generators, 1): ... func()
StartGenerator ==
  /\ gen.pc = "for"
  /\ gen' = [gen EXCEPT !.pc = "func",
                         !.started = Append(gen.started, generators[gen.i])]
  /\ UNCHANGED dashboard

\* func() returns, its file written; the loop goes on or ends.
GeneratorReturns ==
  /\ gen.pc = "func"
  /\ Reads(gen.i) \subseteq gen.files
  /\ gen' = [gen EXCEPT !.files = gen.files \cup {full_files[gen.i]},
                         !.i = gen.i + 1,
                         !.pc = IF gen.i < Len(generators) THEN "for"
                                ELSE "finally"]
  /\ UNCHANGED dashboard

\* func() raises, before or after it wrote its file:
\* except Exception: sys.exit(1)
GeneratorRaises ==
  /\ gen.pc = "func"
  /\ \E wrote \in SUBSET {full_files[gen.i]} :
       gen' = [gen EXCEPT !.files = gen.files \cup wrote,
                          !.raised = gen.i,
                          !.status = 1,
                          !.pc = "finally"]
  /\ UNCHANGED dashboard

\* The finally clause without its os.chdir.
RestoreDir_skipped ==
  /\ gen.pc = "finally"
  /\ gen' = [gen EXCEPT !.pc = IF gen.status = 1 THEN "exited"
                                ELSE "summary"]
  /\ UNCHANGED dashboard

\* finally: os.chdir(original_dir); SystemExit then leaves main.
RestoreDir ==
  /\ gen.pc = "finally"
  /\ gen' = [gen EXCEPT !.cwd = gen.original_dir,
                         !.pc = IF gen.status = 1 THEN "exited"
                                ELSE "summary"]
  /\ UNCHANGED dashboard

\* The summary is printed, main returns and the process ends.
Summary ==
  /\ gen.pc = "summary"
  /\ gen' = [gen EXCEPT !.pc = "exited", !.status = 0]
  /\ UNCHANGED dashboard

\* ------------------------------------------------------------ specification
InitDashboard(S, K, F, L, T) ==
  /\ sessions = S
  /\ map_obj = create_base_map(0)
  /\ last_maintenance = [l \in LightIds |-> "loaded"]
  /\ auto_refresh = [s \in AllSessions |-> FALSE]
  /\ called \in K
  /\ lights \in L
  /\ pgUp = TRUE
  /\ sfUp = TRUE
  /\ sfLib \in F
  /\ sfEnabled \in F
  /\ sfCreds = sfEnabled
  /\ sfTrained \in T
  /\ engineRes = "unset"
  /\ connRes = "unset"
  /\ sfRes = "unset"
  /\ connTxn = "idle"
  /\ pending = NoPending
  /\ cache = EmptyCache
  /\ pc = [s \in AllSessions |-> "idle"]
  /\ loc = [s \in AllSessions |-> NoLoc]
  /\ ret = NoRet

InitWith(S, K, F, L, T) == InitDashboard(S, K, F, L, T) /\ gen = NotRun

\* One dashboard session.
Init == InitWith({1}, {ReadKeys}, BOOLEAN, [LightIds -> Status], {TRUE})

\* Several sessions of the same process, the ML store not configured.
InitShared ==
  InitWith(AllSessions, {{Key("get_all_lights", NoArg)}}, {FALSE},
           {[l \in LightIds |-> "operational"]}, {TRUE})

Calls ==
  \/ \E s \in sessions, k \in called : ReadCall(s, k)
  \/ \E s \in sessions : ReadStore(s)
  \/ \E s \in sessions, lid \in LightArgs : SimCall(s, lid)
  \/ \E s \in sessions : SimUpdate(s)
  \/ \E s \in sessions, n \in CountArgs : TrigCall(s, n)
  \/ \E s \in sessions : Commit(s)
  \/ \E s \in sessions : ClearAndReturn(s)
  \/ \E s \in sessions : RefreshAll(s)

Next ==
  \/ Calls
  \/ Tick
  \/ PgOutage
  \/ PgRecover
  \/ SfOutage
  \/ SfRecover

NextShared ==
  \/ Calls
  \/ Tick
  \/ PgOutage
  \/ PgRecover

SfKeys == {k \in Keys : k.acc \in SfAccessors}

\* One session that stays on one page (on the predictive page, with one
\* forecast kind); the forecast models may be untrained where the session
\* reads the ML store, and lights may be faulty where it lists faulty lights.
InitPages ==
  /\ InitWith({1},
              {PageKeys(p) : p \in Pages \ {"predictive"}}
                \cup {PredictiveKeys(f) : f \in Kinds},
              BOOLEAN,
              {[l \in LightIds |-> st] : st \in {"operational", "faulty"}},
              BOOLEAN)
  /\ ~sfTrained => (sfLib /\ sfEnabled /\ called \cap SfKeys # {})
  /\ (\E l \in LightIds : lights[l] = "faulty") =>
       called = PageKeys("faulty")

NextPages ==
  \/ \E s \in sessions, p \in Pages : \E in \in Inputs(p) : Render(s, p, in)
  \/ \E s \in sessions : RefreshAll(s)
  \/ PgOutage
  \/ PgRecover
  \/ SfOutage
  \/ SfRecover

\* One session on the predictive page while the ML store's configuration and
\* reachability change.
InitAvail ==
  InitWith({1}, {PredictiveKeys(f) : f \in Kinds}, BOOLEAN,
           {[l \in LightIds |-> "operational"]}, {TRUE})

NextAvail ==
  \/ \E s \in sessions : \E in \in Inputs("predictive") :
       Render(s, "predictive", in)
  \/ SfOutage
  \/ SfRecover
  \/ Reconfigure

\* A page composing maps from the tables it loaded.
InitMap ==
  InitWith({1}, {{}}, {FALSE}, {[l \in LightIds |-> "operational"]}, {TRUE})

NextMap ==
  \/ CreateBaseMap
  \/ AddNeighborhoods
  \/ AddLights
  \/ AddSuppliers
  \/ AddPredictedFailures
  \/ AddSupplierLines

\* One session reading accessors of different ttl, one of them with two
\* argument values, while time passes.
CacheKeys ==
  {Key("get_predicted_failures", d) : d \in DaysArgs}
    \cup {K0("get_faulty_lights_with_supplier"),
          K0("get_snowflake_forecast_30d")}

InitCache ==
  InitWith({1}, {CacheKeys}, {TRUE}, {[l \in LightIds |-> "operational"]},
           {TRUE})

NextCache ==
  \/ \E s \in sessions, k \in called : ReadCall(s, k)
  \/ \E s \in sessions : ReadStore(s)
  \/ \E s \in sessions : RefreshAll(s)
  \/ Tick
  \/ PgOutage
  \/ PgRecover

\* The import of config.py at process start.
InitConfig ==
  InitWith({1}, {{}}, {FALSE}, {[l \in LightIds |-> "operational"]}, {TRUE})

NextConfig == \E store \in {"postgres", "snowflake"} : ImportConfig(store)

\* One run of generate_all.main; a process that can take a step takes it.
InitGen ==
  /\ InitDashboard({1}, {{}}, {FALSE}, {[l \in LightIds |-> "operational"]},
                   {TRUE})
  /\ gen \in GenInits

NextGen ==
  \/ Chdir
  \/ StartGenerator
  \/ GeneratorReturns
  \/ GeneratorRaises
  \/ RestoreDir
  \/ Summary

\* Sessions on the live page, each with its auto-refresh checkbox.  A pass
\* that sleeps wakes up, and a re-run that was asked for is made.
InitLive ==
  InitWith(AllSessions, {PageKeys("live")}, {FALSE},
           {[l \in LightIds |-> "operational"]}, {TRUE})

NextLive ==
  \/ \E s \in sessions : Render(s, "live", DefaultInputs)
  \/ \E s \in sessions : ToggleAutoRefresh(s)
  \/ \E s \in sessions : Wake(s)
  \/ \E s \in sessions : RefreshAll(s)
  \/ Tick
  \/ PgOutage
  \/ PgRecover

FairLive ==
  \A s \in AllSessions :
    /\ WF_vars(Wake(s))
    /\ WF_vars(pc[s] # "idle" /\ Render(s, "live", DefaultInputs))

Spec == Init /\ [][Next]_vars

SpecLive == InitLive /\ [][NextLive]_vars /\ FairLive

SpecConfig == InitConfig /\ [][NextConfig]_vars

SpecGen == InitGen /\ [][NextGen]_vars /\ WF_vars(NextGen)

SpecCache == InitCache /\ [][NextCache]_vars

SpecMap == InitMap /\ [][NextMap]_vars

SpecAvail == InitAvail /\ [][NextAvail]_vars

SpecPages == InitPages /\ [][NextPages]_vars

SpecShared == InitShared /\ [][NextShared]_vars

\* ------------------------------------------------------------------ claims
IsWrite(r) == r.op \in {"sim", "trig"}

\* C1: a read accessor never raises; when its handle is unavailable or its
\* query raises, the table it returns has no rows.
C1_ReadNeverRaises ==
  ret.op = "read" =>
    /\ ~ret.raised
    /\ ret.failed => ret.val.rows = <<>>

\* A read whose query failed against a store that is down has returned.
C1_Witness ==
  /\ ret.op = "read"
  /\ ~ret.hit
  /\ ret.failed
  /\ ~ret.up

\* C2: the table a read accessor returns on failure has the columns its
\* successful result declares, and zero rows.
C2_FailureKeepsColumns ==
  (ret.op = "read" /\ ret.failed) =>
    /\ ret.val.cols = Columns(ret.key.acc)
    /\ ret.val.rows = <<>>

\* C3: a render pass of any page whose upstream accessors all returned empty
\* tables completes without raising and shows an empty-state message.
C3_PagesTolerateEmpty ==
  (ret.op = "render" /\ ret.allEmpty) =>
    /\ ~ret.raised
    /\ ret.shown \cap Notices # {}

\* C4: in a single session, when a write accessor returns success the whole
\* data cache is empty, and no later read of that session is answered with a
\* result from before the write.
C4_SuccessEmptiesCache ==
  /\ (IsWrite(ret) /\ ret.ok) => cache = EmptyCache
  /\ (ret.op = "read" /\ ret.hit) => ~ret.stale

\* A successful write that changed a light has dropped the cached results of
\* both stores.
C4_Witness ==
  /\ IsWrite(ret)
  /\ ret.ok
  /\ ret.changed # {}
  /\ ret.dropped = Cardinality(ReadKeys)

C6_SimulateFlipsOneOperational ==
  (ret.op = "sim" /\ ret.ok) =>
    /\ Cardinality(ret.changed) = 1
    /\ ret.fromOp
    /\ ret.toSt = {"faulty"}
    /\ \A l \in ret.changed : lights[l] = "faulty"

\* C7: a successful trigger_scheduled_maintenance(N) changes exactly
\* min(N, number of operational lights) lights, each of them from operational
\* to maintenance_required; no other light is changed.
C7_MaintenanceChangesMin ==
  (ret.op = "trig" /\ ret.ok) =>
    /\ Cardinality(ret.changed) = Min(ret.count, ret.opBefore)
    /\ ret.fromOp
    /\ ret.toSt \subseteq {"maintenance_required"}
    /\ \A l \in ret.changed : lights[l] = "maintenance_required"

\* A successful trigger whose LIMIT was below the number of operational
\* lights.
C7_Witness ==
  /\ ret.op = "trig"
  /\ ret.ok
  /\ ret.count > 0
  /\ ret.count < ret.opBefore
  /\ ret.changed # {}

\* C8: a write accessor returns a (success, message) pair; when success is
\* False the call changed no light's status in the store and did not clear the
\* cache.
C8_FailureChangesNothing ==
  IsWrite(ret) =>
    /\ ret.ok \in BOOLEAN
    /\ ~ret.ok => (ret.changed = {} /\ ~ret.cleared /\ ret.dropped = 0)

\* A write whose UPDATE ran and whose commit failed has returned failure.
C8_Witness ==
  /\ IsWrite(ret)
  /\ ~ret.ok
  /\ ret.updated
  /\ ret.msg # "No database connection"

\* C9: once the store answers again, a cached read accessor returns the
\* store's data, not the empty result of an earlier failed query.
C9_FailureNotServedAfterRecovery ==
  (ret.op = "read" /\ ret.hit /\ ret.up) => ret.val.cols # {}

\* C10: a connection that could not be established is not kept: a write
\* accessor reports "No database connection" only while the store is down.
C10_FailedHandleNotKept ==
  (IsWrite(ret) /\ ret.msg = "No database connection") => ~ret.up

IsPredictive(r) == r.op = "render" /\ r.page = "predictive"

\* C11: every availability check of the ML store reflects the situation at
\* the time of the check (library present, credentials configured now, store
\* reachable), whatever earlier checks found.
C11_AvailabilityRederived ==
  IsPredictive(ret) => (ret.avail = ret.configured)

NotConnected == "Snowflake ML not connected"

\* C12: the ML store is reported available only with its library present,
\* its credentials configured and a connection handle; a predictive render
\* pass that finds it unavailable calls no get_snowflake_* accessor, shows the
\* not-connected notice and renders the local risk-window view from
\* get_predicted_failures.
C12_UnavailableFallsBackToLocal ==
  IsPredictive(ret) =>
    /\ ret.avail => (sfLib /\ sfEnabled /\ sfRes = "handle")
    /\ ~ret.avail =>
         /\ \A k \in ret.calls : k.acc \notin SfAccessors
         /\ NotConnected \in ret.shown
         /\ Key("get_predicted_failures", ret.in.days_ahead) \in ret.calls
         /\ ~ret.raised
         /\ "map" \in ret.shown

\* C13: when the ML store is available and the forecast table of the selected
\* kind exists but holds no row, the predictive page shows 'ML Model Not
\* Trained Yet' and nothing else.
C13_UntrainedShowsNotTrained ==
  (/\ IsPredictive(ret)
   /\ ret.avail
   /\ ret.table.cols # {}
   /\ ret.table.rows = <<>>)
    => ret.shown = {"ML Model Not Trained Yet"}

IsLayerCall(r, fn) == r.op = "layer" /\ r.fn = fn

\* C14: an add-layer function of map_utils called with an empty table does
\* not raise and returns the map it was given, with the layers it had.
C14_EmptyTableAddsNoLayer ==
  (/\ ret.op = "layer"
   /\ \E i \in DOMAIN ret.tables : IsEmpty(ret.tables[i]))
    => (/\ ~ret.raised
        /\ ret.after.handle = ret.before.handle
        /\ ret.after.layers = ret.before.layers)

C14_Witness ==
  /\ IsLayerCall(ret, "add_neighborhood_supplier_lines")
  /\ ~IsEmpty(ret.tables[1])
  /\ ~IsEmpty(ret.tables[2])
  /\ ret.tables[3].cols # {}
  /\ ret.tables[3].rows = <<>>
  /\ ret.before.layers # <<>>

\* C15: add_neighborhoods_layer adds one polygon layer for every row whose
\* boundary parses and none for the others, wherever they sit in the table,
\* and does not raise: K rows with one malformed boundary give K-1 layers.
C15_OneLayerPerParsedBoundary ==
  IsLayerCall(ret, "add_neighborhoods_layer") =>
    LET rows == ret.tables[1].rows
        parsed == {i \in 1..Len(rows) :
                     rows[i].boundary_geojson \in {"Polygon", "MultiPolygon"}}
        added == Len(ret.after.layers) - Len(ret.before.layers) IN
    /\ ~ret.raised
    /\ ret.after.handle = ret.before.handle
    /\ added = Cardinality(parsed)
    /\ SubSeq(ret.after.layers, 1, Len(ret.before.layers)) = ret.before.layers
    /\ \A i \in 1..added :
         ret.after.layers[Len(ret.before.layers) + i] = "GeoJson"
    /\ (Len(rows) - Cardinality(parsed) = 1) => added = Len(rows) - 1

C15_Witness ==
  /\ IsLayerCall(ret, "add_neighborhoods_layer")
  /\ Len(ret.tables[1].rows) = MaxRows
  /\ ret.tables[1].rows[1].boundary_geojson = "malformed"
  /\ \A i \in 2..MaxRows :
       ret.tables[1].rows[i].boundary_geojson # "malformed"
  /\ Len(ret.after.layers) = Len(ret.before.layers) + MaxRows - 1

\* C16: the faulty-lights page keeps a row if and only if its distance_km is
\* at most the slider value (a row at exactly that distance is kept) and,
\* when neighborhoods of the table are selected, its neighborhood is one of
\* them.
C16_MaxDistanceInclusive ==
  (ret.op = "render" /\ ret.page = "faulty" /\ ~ret.raised) =>
    LET rows == ret.table.rows
        chosen == ret.in.selected
                    \cap {rows[i].neighborhood : i \in 1..Len(rows)} IN
    \A i \in 1..Len(rows) :
      i \in ret.kept <=>
        /\ rows[i].distance_km <= ret.in.max_distance
        /\ chosen # {} => rows[i].neighborhood \in chosen

C16_Witness ==
  /\ ret.op = "render"
  /\ ret.page = "faulty"
  /\ ~ret.raised
  /\ ret.in.selected # {}
  /\ \E i \in ret.kept :
       ret.table.rows[i].distance_km = ret.in.max_distance
  /\ ret.kept # 1..Len(ret.table.rows)

\* C17: with a non-empty tier selection S the predictive page keeps exactly
\* the forecast rows whose PRIORITY (bulb failures) or WORKLOAD_LEVEL (all
\* maintenance issues) is in S, and the daily view shows its table when such
\* rows exist.
C17_TierFilterReadsKindColumn ==
  (/\ IsPredictive(ret)
   /\ "forecast" \in ret.shown
   /\ ret.in.priority_filter # {}) =>
    LET rows == ret.table.rows
        tier(i) == IF ret.in.kind = "bulb" THEN rows[i].PRIORITY
                   ELSE rows[i].WORKLOAD_LEVEL IN
    /\ ret.kept = {i \in 1..Len(rows) : tier(i) \in ret.in.priority_filter}
    /\ ret.in.view_mode = "Daily Schedule" =>
         ("daily" \in ret.shown <=> ret.kept # {})

C17_Witness ==
  /\ IsPredictive(ret)
  /\ "daily" \in ret.shown
  /\ ret.in.kind = "all"
  /\ ret.in.priority_filter = {"MEDIUM"}
  /\ ret.kept # {}
  /\ ret.kept # 1..Len(ret.table.rows)

\* The ML-store accessors among the calls of a pass.
SfCalls(calls) == {k.acc : k \in {c \in calls : c.acc \in SfAccessors}}

\* C18: the ML-store accessors a predictive render pass calls for one
\* forecast kind have nothing in common with those a pass for the other kind
\* calls, whatever its view mode.
C18_KindsCallDisjointAccessors ==
  IsPredictive(ret) =>
    \A kind \in Kinds \ {ret.in.kind} :
      \A v \in ViewModes(kind) :
        SfCalls(ret.calls)
          \cap SfCalls(PredictivePage([ret.in EXCEPT !.kind = kind,
                                                     !.view_mode = v]).calls)
          = {}

\* C19: a result is cached under its accessor and argument value for the
\* accessor's ttl.  An entry is younger than the ttl and holds a result of
\* its own key's query; a call that finds an entry returns that entry without
\* a query; a query runs only for a key that has no entry, and its result
\* becomes the key's entry.
C19_CachedPerKeyForTTL ==
  /\ \A k \in Keys :
       cache[k] # NoEntry =>
         /\ cache[k].age < TTL(k.acc)
         /\ cache[k].val.cols # {} => cache[k].val = QueryResult(k, lights)
  /\ \A s \in sessions : pc[s] = "rd_store" => cache[loc[s].key] = NoEntry
  /\ (ret.op = "read" /\ ret.hit) =>
       /\ cache[ret.key] # NoEntry
       /\ ret.val = cache[ret.key].val
       /\ pc[ret.s] = "idle"
  /\ (ret.op = "read" /\ ~ret.hit /\ ~ret.raised) =>
       cache[ret.key] = [val |-> ret.val, age |-> 0]

C19_Witness ==
  /\ ret.op = "read"
  /\ ret.hit
  /\ ret.key = K0("get_snowflake_forecast_30d")
  /\ cache[ret.key].age > 0
  /\ \A d \in DaysArgs : cache[Key("get_predicted_failures", d)] # NoEntry
  /\ \E d, e \in DaysArgs :
       cache[Key("get_predicted_failures", d)].val
         # cache[Key("get_predicted_failures", e)].val

\* A step keeps every handle its getter has returned, and the getter returns
\* it again.
HandlesKept ==
  /\ engineRes # "unset" =>
       /\ engineRes' = engineRes
       /\ get_sqlalchemy_engine(engineRes') = engineRes
  /\ connRes # "unset" =>
       /\ connRes' = connRes
       /\ get_connection(connRes', pgUp') = connRes
  /\ sfRes # "unset" =>
       /\ sfRes' = sfRes
       /\ get_snowflake_connection(sfRes', sfLib', sfEnabled', sfUp') = sfRes

\* C20: a cached handle, once its getter has returned it, is the value the
\* getter returns from then on: no write accessor, no cache clear and no other
\* step replaces the engine, the connection or the ML-store connection.
C20_HandlesSurviveWritesAndClears == [][HandlesKept]_vars

C20_Witness ==
  /\ ret.op = "refresh"
  /\ engineRes = "handle"
  /\ connRes = "handle"
  /\ sfRes = "handle"
  /\ \E l \in LightIds : lights[l] = "faulty"

\* C21: the store holds the lights it held at the start, and of a light's
\* row the application has written nothing but status.
C21_OnlyStatusWritten ==
  /\ DOMAIN lights = LightIds
  /\ \A l \in LightIds : last_maintenance[l] = "loaded"

\* C22: every connection parameter takes its secrets value when the secrets
\* store defines it, otherwise its environment value when the variable is
\* set, otherwise the default, whatever the other parameters of the store.
C22_PerParameterPrecedence ==
  ret.op = "import" =>
    \A q \in DOMAIN ret.config :
      ret.config[q] = IF ret.secrets[q] THEN "secret"
                      ELSE IF ret.env[q] THEN "env"
                      ELSE "default"

\* A forced re-render followed a sleep of the fixed delay by a pass that had
\* found the checkbox ticked.
ForcedAfterDelay ==
  (ret.op = "render" /\ ret.forced) =>
    /\ ret.page = "live"
    /\ ret.slept = AUTO_REFRESH_INTERVAL
    /\ ret.auto

\* C23: a pass of the live page that reaches the auto-refresh control with
\* the checkbox ticked sleeps for the fixed delay and a forced re-render
\* follows, so that forced re-renders recur for as long as the checkbox stays
\* ticked; with the checkbox clear the control forces no re-render.
C23_AutoRefreshRecurs ==
  /\ []ForcedAfterDelay
  /\ \A s \in AllSessions :
       /\ (pc[s] = "sleep") ~> (ret.op = "render" /\ ret.s = s /\ ret.forced)
       /\ (<>[]auto_refresh[s])
            => []<>(ret.op = "render" /\ ret.s = s /\ ret.forced)

C23_Witness ==
  /\ ret.op = "render"
  /\ ret.forced
  /\ auto_refresh[ret.s]
  /\ pc[ret.s] = "sleep"

\* The functions that draw one marker per row, and the layers a call added.
PointLayers == {"add_lights_layer", "add_predicted_failures_layer"}
Added(before, after) ==
  SubSeq(after.layers, Len(before.layers) + 1, Len(after.layers))

\* C24: there is a marker-count threshold such that a point layer of n rows
\* puts its markers in one cluster group when n exceeds it and adds them to
\* the map one by one when n is at or below it.
C24_ClusterAboveThreshold ==
  (/\ ret.op = "layer"
   /\ ret.fn \in PointLayers
   /\ ~IsEmpty(ret.tables[1])) =>
    LET df == ret.tables[1]
        n == Len(df.rows)
        built == {add_lights_layer(ret.before, df).map,
                  add_predicted_failures_layer(ret.before, df).map} IN
    /\ ret.after \in built
    /\ \E threshold \in 0..MaxRows :
         \A m \in built :
           IF n > threshold
           THEN Added(ret.before, m) = <<"MarkerCluster">>
           ELSE /\ Len(Added(ret.before, m)) = n
                /\ "MarkerCluster" \notin
                     {Added(ret.before, m)[i] : i \in 1..n}

\* C25: simulate_light_failure() called without a light_id and returning
\* success has set to faulty a light that was operational when its UPDATE
\* ran, whatever another session wrote between its SELECT and its UPDATE.
C25_PickedLightStillOperational ==
  (ret.op = "sim" /\ ret.picked /\ ret.ok) => ret.atUpdate = "operational"

\* C26: when a write accessor returns, whatever it returns, the shared
\* connection is left with no open and no aborted transaction.
C26_NoTransactionLeftBehind ==
  IsWrite(ret) => connTxn \notin {"open", "aborted"}

\* A step that changes a light's status moves it out of operational.
OnlyOutOfOperational ==
  \A l \in LightIds :
    lights'[l] # lights[l] =>
      /\ lights[l] = "operational"
      /\ lights'[l] \in {"faulty", "maintenance_required"}

\* C27: no step sets a light to operational and every status change moves a
\* light from operational to faulty or maintenance_required, so the number
\* of operational lights never increases.
C27_OperationalNeverRegained == [][OnlyOutOfOperational]_vars

\* The rows of a table whose column col holds a value of the selection, or
\* every row when nothing is selected.
Selected(table, col, selection) ==
  {i \in 1..Len(table.rows) :
     selection # {} => table.rows[i][col] \in selection}

\* C28: in every pass that did not raise, each multi-select filter with an
\* empty selection keeps the whole table, and with a non-empty selection
\* keeps exactly the rows whose value is in the selection: the neighborhood
\* filter of the overview and of the faulty page (there together with the
\* distance bound), the tier filter and the urgency filter of the
\* predictive page.
C28_EmptySelectionIsNoFilter ==
  (ret.op = "render" /\ ~ret.raised) =>
    /\ ret.page = "overview" =>
          ret.kept = Selected(ret.table, "neighborhood_name",
                              ret.in.selected \cap ret.options)
    /\ ret.page = "faulty" =>
          ret.kept =
            {i \in Selected(ret.table, "neighborhood",
                                ret.in.selected \cap ret.options) :
               ret.table.rows[i].distance_km <= ret.in.max_distance}
    /\ (ret.page = "predictive" /\ ret.avail /\ ~IsEmpty(ret.table)) =>
          ret.kept = Selected(ret.table, TierColumn(ret.in.kind),
                              ret.in.priority_filter)
    /\ (ret.page = "predictive" /\ ~IsEmpty(ret.local)) =>
          ret.localKept = Selected(ret.local, "maintenance_urgency",
                                   ret.in.urgency_filter)

\* An overview pass with nothing selected kept every light, and one with a
\* neighborhood selected dropped a light.
C28_Witness ==
  /\ ret.op = "render" /\ ~ret.raised /\ ret.page = "overview"
  /\ ret.in.selected = {}
  /\ ret.kept = 1..Len(ret.table.rows) /\ ret.kept # {}

\* C29: every predictive render pass that the model-not-trained stop did not
\* halt renders the local risk-window section (it calls
\* get_predicted_failures and shows the urgency metrics or their notice and
\* the predicted-failures map) without raising: after the forecast sections
\* when the ML store is available, alone after the not-connected notice when
\* it is not.
C29_LocalSectionAlwaysRendered ==
  (IsPredictive(ret) /\ "ML Model Not Trained Yet" \notin ret.shown) =>
    /\ Key("get_predicted_failures", ret.in.days_ahead) \in ret.calls
    /\ ~ret.raised
    /\ "map" \in ret.shown
    /\ ret.shown \cap {"urgency_metrics",
                       "No predictions in selected window"} # {}
    /\ ret.avail => "forecast" \in ret.shown
    /\ ~ret.avail => /\ NotConnected \in ret.shown
                     /\ "forecast" \notin ret.shown

\* The generators started so far are the first ones of the fixed order.
InOrder ==
  /\ Len(gen.started) <= Len(generators)
  /\ \A k \in 1..Len(gen.started) : gen.started[k] = generators[k]

\* After generator i raised, no later generator has been started.
NoneAfterRaise == gen.raised # 0 => Len(gen.started) = gen.raised

\* The process has ended in the working directory it was started in, with
\* status 1 after a generator raised and else with status 0 after all five
\* generators ran.
EndedRestored ==
  gen.pc = "exited" =>
    /\ gen.cwd = gen.before
    /\ gen.status = IF gen.raised # 0 THEN 1 ELSE 0
    /\ gen.status = 0 => gen.started = generators

\* C30: generate_all.main starts the five generators in the fixed order
\* neighborhoods, street lights, maintenance history, suppliers, enrichment
\* data; once generator i raises no later generator is ever started and the
\* process exits with status 1; and the process always ends, on every path
\* in the working directory in effect before the run.
C30_GeneratorsInOrderDirRestored ==
  /\ []InOrder
  /\ []NoneAfterRaise
  /\ []EndedRestored
  /\ (gen.raised # 0) ~> (gen.pc = "exited" /\ gen.status = 1)
  /\ <>(gen.pc = "exited")

\* A run started outside the data directory whose third generator raised has
\* exited with status 1, back in the directory it was started in.
C30_Witness ==
  /\ gen.pc = "exited" /\ gen.status = 1 /\ gen.raised = 3
  /\ gen.started = SubSeq(generators, 1, 3)
  /\ gen.before # data_dir /\ gen.cwd = gen.before
====
